---- MODULE Spec2Model ----
(***************************************************************************)
(* Model of declaracad's operation proxies (occ/impl/occ_algo.py): the     *)
(* debounced rebuild queue of OccOperation and the update_shape algorithms *)
(* of the boolean, fillet and chamfer operations.                          *)
(*                                                                         *)
(* Kernel values are symbolic.  A shape is a sequence of strings: None is  *)
(* the empty sequence, a leaf shape is <<name>>, and a kernel builder is   *)
(* the flat term of its constructor arguments and Add calls, so distinct   *)
(* constructions give distinct shapes.  A kernel call is a record          *)
(* [fn, args] whose args are sequences of strings.                         *)
(***************************************************************************)
EXTENDS Integers, Sequences, FiniteSets, TLC

\* ------------------------------------------------------------------ bounds
\* Most notifications (_queue_update calls) issued on one node in a run.
MaxNotify == 3
\* Longest child list of a node.
MaxChildren == 2
\* Longest declared edge list and face list.
MaxEdges == 3
MaxFaces == 3
\* Longest declared operation list of a Transform.
MaxOps == 2
\* Most parameter edits of one node while it is chained to another.
MaxChainEdits == 1

\* ------------------------------------------------------------------ values
None == << >>

BoolNodes == {"common", "cut", "fuse"}
\* Operations whose inputs are all children, and those with explicit references
\* (Pipe, Transform) or a resolved face set (ThickSolid).
LocalNodes == BoolNodes \cup {"fillet", "chamfer"}
RefNodes == {"pipe", "transform"}
\* Operations on a first child or on children told apart by their kind.
OpNodes == {"thicksolid", "offset", "thrusections"}
Nodes == LocalNodes \cup RefNodes \cup OpNodes

\* Shapes outside the node's subtree that a declaration can reference
\* (d.spline, d.profile, d.shape); each has a proxy with an observable shape.
Producers == {"X", "Y"}

\* Every owner of an observable shape.
Sources == Producers \cup Nodes

\* Leaf producers usable as children; each exposes a shape and a topology.
Leaves == {"C", "D", "E"}
LeafShape(c) == <<c>>
TopologyEdges(c) ==
    CASE c = "C" -> <<"Ce1", "Ce2", "Ce3">>
      [] c = "D" -> <<"De1">>
      [] OTHER   -> <<"Ee1", "Ee2">>
TopologyFaces(c) ==
    CASE c = "C" -> <<"Cf1", "Cf2">>
      [] c = "D" -> <<"Df1", "Df2">>
      [] c = "W" -> << >>
      [] OTHER   -> <<"Ef1">>

\* A wire leaf: its topology has edges and no faces.
Wires == {"W"}

\* A vertex leaf.
Vertices == {"V"}

\* isinstance(child, OccVertex) / isinstance(child, OccWire)
Kind(c) ==
    IF c \in Vertices THEN "vertex" ELSE IF c \in Wires THEN "wire" ELSE "other"

EdgeNames == <<"e1", "e2", "e3", "e4", "e5">>
FaceNames == <<"f1", "f2", "f3", "f4", "f5">>
Min(a, b) == IF a < b THEN a ELSE b
DeclaredEdges == {SubSeq(EdgeNames, 1, k) : k \in 0..Min(MaxEdges, Len(EdgeNames))}
DeclaredFaces == {SubSeq(FaceNames, 1, k) : k \in 0..Min(MaxFaces, Len(FaceNames))}

\* Values a scalar parameter (axis, radius, distance) is written with.
Values == {"v1", "v2"}

Injective(s) == \A i, j \in 1..Len(s) : i # j => s[i] # s[j]
ChildSeqs ==
    {s \in UNION {[1..k -> Leaves] : k \in 0..Min(MaxChildren, Cardinality(Leaves))} :
        Injective(s)}

\* The operations a Transform declares, each with its own gp_Trsf setter.
OpKinds == {"Translate", "Rotate", "Mirror", "Scale"}
OperationLists ==
    {s \in UNION {[1..k -> OpKinds] : k \in 0..Min(MaxOps, Cardinality(OpKinds))} :
        Injective(s)}

VARIABLES
    declaration,   \* node -> its declaration's fields; live = FALSE once cleared
    children,      \* node -> ordered child leaves
    shape,         \* node -> current shape
    update_count,  \* node -> OccOperation._update_count
    queue,         \* deferred _dequeue_update calls not yet run, oldest first
    last,          \* node -> what its latest update_shape read, called and wrote
    rebuilds,      \* node -> number of update_shape invocations so far
    issued,        \* node -> number of _queue_update calls so far
    burst,         \* node -> bookkeeping of the current settle period
    pshape,        \* producer -> its proxy's current shape
    observers,     \* shape owner -> nodes whose _queue_update observes its 'shape'
    old_spline,    \* node -> OccPipe._old_spline
    old_profile,   \* node -> OccPipe._old_profile
    old_shape      \* node -> OccTransform._old_shape

\* The subscriptions and the references the nodes remember.
wiring == <<observers, old_spline, old_profile, old_shape>>

vars == <<declaration, children, shape, update_count, queue, last, rebuilds,
          issued, burst, pshape, observers, old_spline, old_profile, old_shape>>

\* ------------------------------------------------------------ declarations
\* A declaration no proxy is attached to (self.declaration is None).
NoDeclaration ==
    [live |-> FALSE, axis |-> "v1", radius |-> "v1", distance |-> "v1",
     distance2 |-> None, edges |-> << >>, faces |-> << >>,
     shape1 |-> None, shape2 |-> None, pave_filler |-> None,
     spline |-> None, profile |-> None, fill_mode |-> None,
     shape |-> None, operations |-> << >>,
     closing_faces |-> << >>, offset |-> "v1"]

BoolDeclarations ==
    {[NoDeclaration EXCEPT !.live = TRUE, !.shape1 = s1, !.shape2 = s2,
                           !.pave_filler = pf] :
        s1 \in {None, <<"A">>}, s2 \in {None, <<"B">>}, pf \in {None, <<"pf">>}}

FilletDeclarations ==
    {[NoDeclaration EXCEPT !.live = TRUE, !.edges = es] : es \in DeclaredEdges}

ChamferDeclarations ==
    {[NoDeclaration EXCEPT !.live = TRUE, !.edges = es, !.faces = fs] :
        es \in DeclaredEdges, fs \in DeclaredFaces}

\* A Pipe or Transform starts without explicit references; they are bound by
\* set_spline, set_profile and set_shape.
PipeDeclarations == {[NoDeclaration EXCEPT !.live = TRUE]}

TransformDeclarations ==
    {[NoDeclaration EXCEPT !.live = TRUE, !.operations = ops] :
        ops \in OperationLists}

ThickSolidDeclarations ==
    {[NoDeclaration EXCEPT !.live = TRUE, !.closing_faces = fs] :
        fs \in {<< >>, <<"f1">>, <<"f1", "f2">>}}

\* Child lists a node is declared with.  Fillet, chamfer, thick solid and
\* transform operate on their first child only; a pipe reads its first two
\* children by position.
ChildrenOf(n) ==
    IF n \in BoolNodes THEN ChildSeqs
    ELSE IF n = "pipe" THEN {SubSeq(<<"C", "D">>, 1, k) : k \in 0..2}
    ELSE IF n = "transform" THEN {<< >>, <<"C">>}
    ELSE IF n = "thicksolid" \/ n = "offset"
    THEN {s \in ChildSeqs : Len(s) <= 1} \cup {<<w>> : w \in Wires}
    ELSE IF n = "thrusections"
    THEN {s \in UNION {[1..k -> Vertices \cup Wires \cup {"C"}] :
                          k \in 0..Min(MaxChildren, 3)} : Injective(s)}
    ELSE {s \in ChildSeqs : Len(s) <= 1}

DeclarationsOf(n) ==
    IF n \in BoolNodes THEN BoolDeclarations
    ELSE IF n = "fillet" THEN FilletDeclarations
    ELSE IF n = "chamfer" THEN ChamferDeclarations
    ELSE IF n = "pipe" THEN PipeDeclarations
    ELSE IF n = "transform" THEN TransformDeclarations
    ELSE IF n = "thicksolid" THEN ThickSolidDeclarations
    ELSE {[NoDeclaration EXCEPT !.live = TRUE]}

\* The fields a set_* handler of the node's class is called for, with the
\* values the declaration is written with before the handler runs.
SettableFields(n) ==
    IF n \in BoolNodes \/ n = "transform" \/ n = "thrusections" THEN {"axis"}
    ELSE IF n = "fillet" THEN {"radius"}
    ELSE IF n = "chamfer" THEN {"distance", "distance2"}
    ELSE IF n = "pipe" THEN {"fill_mode"}
    ELSE {"offset"}

FieldValues(f) ==
    IF f = "distance2" THEN {None, <<"v2">>}
    ELSE IF f = "fill_mode" THEN {None, <<"frenet">>}
    ELSE Values

\* The explicit references of a node, bound by set_spline, set_profile and
\* set_shape.
ReferenceFields(n) ==
    IF n = "pipe" THEN {"spline", "profile"}
    ELSE IF n = "transform" THEN {"shape"}
    ELSE {}

\* ------------------------------------------------------------ kernel calls
Call(fn, args) == [fn |-> fn, args |-> args]

\* The result of one update_shape run: the values assigned to self.shape in
\* order, the kernel calls made in order, and whether it raised.  failAt = k
\* makes the k-th kernel call of the run raise (0: the kernel never raises).
Started == [writes |-> << >>, calls |-> << >>, raised |-> FALSE]

\* One kernel call: it is recorded, and it raises when it is the failAt-th
\* call of the run.
KernelCall(r, call, failAt) ==
    [r EXCEPT !.calls = Append(@, call),
              !.raised = (Len(r.calls) + 1 = failAt)]

Assign(r, value) == [r EXCEPT !.writes = Append(@, value)]

\* self.shape as seen inside the run: the latest assignment, else the old one.
Current(r, old) == IF r.writes = << >> THEN old ELSE r.writes[Len(r.writes)]

\* ------------------------------------------------------- boolean operations
OpName(n) ==
    CASE n = "common" -> "Common"
      [] n = "cut"    -> "Cut"
      [] OTHER        -> "Fuse"

\* The shape a BRepAlgoAPI_<op>(shape1, shape2) builder stands for.
BRepAlgoAPI(op, shape1, shape2) == shape1 \o shape2 \o <<op>>

\* _do_operation: args = [shape1, shape2] (+ pave_filler when declared).
do_operation(r, n, d, shape1, shape2, failAt) ==
    LET args == IF d.pave_filler # None THEN <<shape1, shape2, d.pave_filler>>
                ELSE <<shape1, shape2>>
        r1 == KernelCall(r, Call(OpName(n), args), failAt)
    IN  IF r1.raised THEN r1
        ELSE Assign(r1, BRepAlgoAPI(OpName(n), shape1, shape2))

\* Variant: the operation is attempted when either operand is declared.
create_shape_either(r, n, d, failAt) ==
    IF d.shape1 # None \/ d.shape2 # None
    THEN do_operation(r, n, d, d.shape1, d.shape2, failAt)
    ELSE Assign(r, None)

create_shape(r, n, d, failAt) ==
    IF d.shape1 # None /\ d.shape2 # None
    THEN do_operation(r, n, d, d.shape1, d.shape2, failAt)
    ELSE Assign(r, None)

\* Variant: the child is passed as the first operand.
fold_child_swapped(r, n, d, c, old, failAt) ==
    LET s == Current(r, old)
    IN  IF s # None THEN do_operation(r, n, d, LeafShape(c), s, failAt)
        ELSE Assign(r, LeafShape(c))

\* One pass of the loop over self.children().
fold_child(r, n, d, c, old, failAt) ==
    LET s == Current(r, old)
    IN  IF s # None THEN do_operation(r, n, d, s, LeafShape(c), failAt)
        ELSE Assign(r, LeafShape(c))

RECURSIVE fold_children(_, _, _, _, _, _, _)
fold_children(r, n, d, cs, i, old, failAt) ==
    IF r.raised \/ i > Len(cs) THEN r
    ELSE fold_children(fold_child(r, n, d, cs[i], old, failAt),
                       n, d, cs, i + 1, old, failAt)

update_shape_boolean(n, d, cs, old, failAt) ==
    fold_children(create_shape(Started, n, d, failAt), n, d, cs, 1, old, failAt)

\* ------------------------------------------------------------------ fillet
RECURSIVE fillet_add(_, _, _, _, _)
fillet_add(r, d, edges, i, failAt) ==
    IF r.raised \/ i > Len(edges) THEN r
    ELSE fillet_add(KernelCall(r, Call("Fillet.Add", <<<<d.radius>>, <<edges[i]>>>>),
                               failAt),
                    d, edges, i + 1, failAt)

\* The builder object: its constructor argument followed by what was added.
RECURSIVE BuilderTerm(_, _)
BuilderTerm(calls, i) ==
    IF i > Len(calls) THEN << >>
    ELSE LET a == calls[i].args
             F[k \in 0..Len(a)] == IF k = 0 THEN << >> ELSE F[k - 1] \o a[k]
         IN  <<calls[i].fn>> \o F[Len(a)] \o BuilderTerm(calls, i + 1)

\* Variant: the builder is created before the children are looked at.
update_shape_fillet_builder_first(n, d, cs, old, failAt) ==
    LET target == IF cs = << >> THEN None ELSE LeafShape(cs[1])
        r1 == KernelCall(Started, Call("BRepFilletAPI_MakeFillet", <<target>>),
                         failAt)
        edges == IF d.edges # << >> \/ cs = << >> THEN d.edges
                 ELSE TopologyEdges(cs[1])
        r2 == fillet_add(r1, d, edges, 1, failAt)
    IN  IF cs = << >> THEN [r2 EXCEPT !.raised = TRUE]
        ELSE IF r2.raised THEN r2 ELSE Assign(r2, BuilderTerm(r2.calls, 1))

\* Variant: every topology edge is added, declared edges or not.
update_shape_fillet_every_edge(n, d, cs, old, failAt) ==
    IF cs = << >> THEN [Started EXCEPT !.raised = TRUE]
    ELSE LET child == cs[1]
             r1 == KernelCall(Started,
                              Call("BRepFilletAPI_MakeFillet", <<LeafShape(child)>>),
                              failAt)
             r2 == fillet_add(r1, d, TopologyEdges(child), 1, failAt)
         IN  IF r2.raised THEN r2 ELSE Assign(r2, BuilderTerm(r2.calls, 1))

update_shape_fillet(n, d, cs, old, failAt) ==
    IF cs = << >> THEN [Started EXCEPT !.raised = TRUE]
    ELSE LET child == cs[1]
             r1 == KernelCall(Started,
                              Call("BRepFilletAPI_MakeFillet", <<LeafShape(child)>>),
                              failAt)
             edges == IF d.edges # << >> THEN d.edges ELSE TopologyEdges(child)
             r2 == fillet_add(r1, d, edges, 1, failAt)
         IN  IF r2.raised THEN r2 ELSE Assign(r2, BuilderTerm(r2.calls, 1))

\* ------------------------------------------------------------------ chamfer
\* zip(edges, faces)
RECURSIVE zip(_, _)
zip(a, b) ==
    IF a = << >> \/ b = << >> THEN << >>
    ELSE << <<Head(a), Head(b)>> >> \o zip(Tail(a), Tail(b))

\* Variant: every edge is submitted, the last face repeated when faces run out.
get_edges_every_edge(d, child) ==
    LET edges == IF d.edges # << >> THEN d.edges ELSE TopologyEdges(child)
        faces == IF d.faces # << >> THEN d.faces ELSE TopologyFaces(child)
    IN  [i \in 1..Len(edges) |-> <<edges[i], faces[Min(i, Len(faces))]>>]

get_edges(d, child) ==
    LET edges == IF d.edges # << >> THEN d.edges ELSE TopologyEdges(child)
        faces == IF d.faces # << >> THEN d.faces ELSE TopologyFaces(child)
    IN  zip(edges, faces)

RECURSIVE chamfer_add(_, _, _, _, _)
chamfer_add(r, d, pairs, i, failAt) ==
    IF r.raised \/ i > Len(pairs) THEN r
    ELSE LET dist == IF d.distance2 # None THEN <<<<d.distance>>, d.distance2>>
                     ELSE <<<<d.distance>>>>
             args == dist \o <<<<pairs[i][1]>>, <<pairs[i][2]>>>>
         IN  chamfer_add(KernelCall(r, Call("Chamfer.Add", args), failAt),
                         d, pairs, i + 1, failAt)

update_shape_chamfer(n, d, cs, old, failAt) ==
    \* get_shape() returns None without children and s.shape then raises
    IF cs = << >> THEN [Started EXCEPT !.raised = TRUE]
    ELSE LET child == cs[1]
             r1 == KernelCall(Started,
                              Call("BRepFilletAPI_MakeChamfer", <<LeafShape(child)>>),
                              failAt)
             r2 == chamfer_add(r1, d, get_edges(d, child), 1, failAt)
         IN  IF r2.raised THEN r2 ELSE Assign(r2, BuilderTerm(r2.calls, 1))

\* -------------------------------------------------------------- thick solid
\* OccOffset.get_shape: the first child, or None (here << >>) without children.
get_shape(cs) == IF cs = << >> THEN << >> ELSE <<cs[1]>>

\* get_faces: the declared closing faces, else the first topology face in a
\* list; the function falls off its end (returns None) when there is no face,
\* and looks up .topology on None without a child.  ok = FALSE: the caller's
\* loop over the result raises.
get_faces(d, s) ==
    IF d.closing_faces # << >> THEN [ok |-> TRUE, faces |-> d.closing_faces]
    ELSE IF s = << >> THEN [ok |-> FALSE, faces |-> << >>]
    ELSE IF TopologyFaces(s[1]) # << >>
    THEN [ok |-> TRUE, faces |-> <<TopologyFaces(s[1])[1]>>]
    ELSE [ok |-> FALSE, faces |-> << >>]

update_shape_thicksolid(n, d, cs, old, failAt) ==
    LET s == get_shape(cs)
        got == get_faces(d, s)
    IN  IF ~got.ok THEN [Started EXCEPT !.raised = TRUE]
        ELSE IF got.faces = << >> THEN Started            \* faces.IsEmpty(): return
        ELSE IF s = << >> THEN [Started EXCEPT !.raised = TRUE]   \* s.shape on None
        ELSE LET r1 == KernelCall(Started,
                                  Call("BRepOffsetAPI_MakeThickSolid",
                                       <<LeafShape(s[1]), got.faces, <<d.offset>>>>),
                                  failAt)
             IN  IF r1.raised THEN r1 ELSE Assign(r1, BuilderTerm(r1.calls, 1))

\* ------------------------------------------------------------------ offset
\* Variant: a missing child is handed to the builder as a null target.
update_shape_offset_null_target(n, d, cs, old, failAt) ==
    LET s == get_shape(cs)
        target == IF s = << >> THEN None ELSE LeafShape(s[1])
        r1 == KernelCall(Started,
                         Call("BRepOffsetAPI_MakeOffsetShape", <<target, <<d.offset>>>>),
                         failAt)
    IN  IF r1.raised THEN r1 ELSE Assign(r1, BuilderTerm(r1.calls, 1))

\* OccOffset.update_shape: a wire child is offset with MakeOffset + Perform,
\* any other child with MakeOffsetShape; without a child s is None and
\* s.shape raises.
update_shape_offset(n, d, cs, old, failAt) ==
    LET s == get_shape(cs)
    IN  IF s = << >> THEN [Started EXCEPT !.raised = TRUE]
        ELSE IF s[1] \in Wires
        THEN LET r1 == KernelCall(Started,
                                  Call("BRepOffsetAPI_MakeOffset",
                                       <<LeafShape(s[1]), <<"join_type">>>>),
                                  failAt)
                 r2 == IF r1.raised THEN r1
                       ELSE KernelCall(r1, Call("Perform", <<<<d.offset>>>>), failAt)
             IN  IF r2.raised THEN r2 ELSE Assign(r2, BuilderTerm(r2.calls, 1))
        ELSE LET r1 == KernelCall(Started,
                                  Call("BRepOffsetAPI_MakeOffsetShape",
                                       <<LeafShape(s[1]), <<d.offset>>>>),
                                  failAt)
             IN  IF r1.raised THEN r1 ELSE Assign(r1, BuilderTerm(r1.calls, 1))

\* ----------------------------------------------------------- thru sections
\* Variant: every child is added as a wire.
thru_add_any(r, c, failAt) ==
    KernelCall(r, Call("AddWire", <<LeafShape(c)>>), failAt)

\* One iteration of the loop over the children.
thru_add(r, c, failAt) ==
    IF Kind(c) = "vertex"
    THEN KernelCall(r, Call("AddVertex", <<LeafShape(c)>>), failAt)
    ELSE IF Kind(c) = "wire"
    THEN KernelCall(r, Call("AddWire", <<LeafShape(c)>>), failAt)
    ELSE r

RECURSIVE thru_children(_, _, _, _)
thru_children(r, cs, i, failAt) ==
    IF r.raised \/ i > Len(cs) THEN r
    ELSE thru_children(thru_add(r, cs[i], failAt), cs, i + 1, failAt)

\* OccThruSections.update_shape
update_shape_thrusections(n, d, cs, old, failAt) ==
    LET r1 == KernelCall(Started,
                         Call("BRepOffsetAPI_ThruSections",
                              <<<<"solid">>, <<"ruled">>, <<"precision">>>>),
                         failAt)
        r2 == thru_children(r1, cs, 1, failAt)
    IN  IF r2.raised THEN r2 ELSE Assign(r2, BuilderTerm(r2.calls, 1))

\* -------------------------------------------------------------------- pipe
\* The shape of the proxy an explicit reference <<p>> points to: an outside
\* producer, or an operation node of the model.
ProxyShape(ref) ==
    IF ref[1] \in Producers THEN pshape[ref[1]] ELSE shape[ref[1]]

\* shapes[i] for the 0-based Python index i; absent = IndexError.
HasShape(cs, i) == i + 1 <= Len(cs)

\* The two inputs as OccPipe.update_shape resolves them:
\*   i = 0; spline = d.spline.proxy if d.spline else shapes[i]
\*   if d.spline: i += 1
\*   profile = d.profile.proxy if d.profile else shapes[i]
pipe_inputs(d, cs) ==
    LET i == IF d.spline # None THEN 1 ELSE 0
    IN  [ok |-> (d.spline # None \/ HasShape(cs, 0))
                /\ (d.profile # None \/ HasShape(cs, i)),
         spline |-> IF d.spline # None THEN ProxyShape(d.spline)
                    ELSE IF HasShape(cs, 0) THEN LeafShape(cs[1]) ELSE None,
         profile |-> IF d.profile # None THEN ProxyShape(d.profile)
                     ELSE IF HasShape(cs, i) THEN LeafShape(cs[i + 1]) ELSE None]

update_shape_pipe(n, d, cs, old, failAt) ==
    LET inp == pipe_inputs(d, cs)
    IN  IF ~inp.ok THEN [Started EXCEPT !.raised = TRUE]
        ELSE LET args == IF d.fill_mode # None
                         THEN <<inp.spline, inp.profile, d.fill_mode>>
                         ELSE <<inp.spline, inp.profile>>
                 r1 == KernelCall(Started, Call("BRepOffsetAPI_MakePipe", args),
                                  failAt)
             IN  IF r1.raised THEN r1 ELSE Assign(r1, BuilderTerm(r1.calls, 1))

\* --------------------------------------------------------------- transform
\* A gp_Trsf is the product of elementary transforms, written as the sequence
\* of its factors from left to right; gp_Trsf() is the identity << >>.
Trsf(op) ==
    CASE op = "Translate" -> <<"SetTranslation">>
      [] op = "Rotate"    -> <<"SetRotation">>
      [] op = "Mirror"    -> <<"SetMirror">>
      [] op = "Scale"     -> <<"SetScale">>
      [] OTHER            -> << >>

\* Variant: result = t * result.
PreMultiply(result, t) == t \o result

\* result.Multiply(t): result = result * t.
Multiply(result, t) == result \o t

RECURSIVE get_transform_from(_, _, _)
get_transform_from(result, ops, i) ==
    IF i > Len(ops) THEN result
    ELSE get_transform_from(Multiply(result, Trsf(ops[i])), ops, i + 1)

get_transform(d) == get_transform_from(<< >>, d.operations, 1)

\* Variant: the first child is preferred to the explicit reference.
transform_target_child_first(d, cs) ==
    IF cs # << >>
    THEN [ok |-> TRUE, make_copy |-> FALSE, shape |-> LeafShape(cs[1])]
    ELSE IF d.shape # None
    THEN [ok |-> TRUE, make_copy |-> TRUE, shape |-> ProxyShape(d.shape)]
    ELSE [ok |-> FALSE, make_copy |-> FALSE, shape |-> None]

\* The target and copy flag of OccTransform.update_shape.
transform_target(d, cs) ==
    IF d.shape # None
    THEN [ok |-> TRUE, make_copy |-> TRUE, shape |-> ProxyShape(d.shape)]
    ELSE IF cs # << >>
    THEN [ok |-> TRUE, make_copy |-> FALSE, shape |-> LeafShape(cs[1])]
    ELSE [ok |-> FALSE, make_copy |-> FALSE, shape |-> None]

Flag(b) == IF b THEN <<"True">> ELSE <<"False">>

update_shape_transform(n, d, cs, old, failAt) ==
    LET target == transform_target(d, cs)
        t == get_transform(d)
    IN  IF ~target.ok THEN [Started EXCEPT !.raised = TRUE]
        ELSE LET r1 == KernelCall(Started,
                                  Call("BRepBuilderAPI_Transform",
                                       <<target.shape, t, Flag(target.make_copy)>>),
                                  failAt)
             IN  IF r1.raised THEN r1 ELSE Assign(r1, BuilderTerm(r1.calls, 1))

\* ---------------------------------------------------------------- dispatch
update_shape(n, d, cs, old, failAt) ==
    IF n \in BoolNodes THEN update_shape_boolean(n, d, cs, old, failAt)
    ELSE IF n = "fillet" THEN update_shape_fillet(n, d, cs, old, failAt)
    ELSE IF n = "chamfer" THEN update_shape_chamfer(n, d, cs, old, failAt)
    ELSE IF n = "thicksolid" THEN update_shape_thicksolid(n, d, cs, old, failAt)
    ELSE IF n = "offset" THEN update_shape_offset(n, d, cs, old, failAt)
    ELSE IF n = "thrusections" THEN update_shape_thrusections(n, d, cs, old, failAt)
    ELSE IF n = "pipe" THEN update_shape_pipe(n, d, cs, old, failAt)
    ELSE update_shape_transform(n, d, cs, old, failAt)

\* Most kernel calls one rebuild can make (constructor plus adds, or the fold).
MaxKernelCalls == 1 + MaxEdges + MaxChildren

\* --------------------------------------------------------------- scheduler
\* The part of the state the handlers below read and write.
State ==
    [update_count |-> update_count, queue |-> queue, shape |-> shape,
     last |-> last, rebuilds |-> rebuilds]

NeverBuilt ==
    [built |-> NoDeclaration, calls |-> << >>, writes |-> << >>,
     raised |-> FALSE, before |-> None]

\* self.update_shape(change) called on node n; defined below.
RECURSIVE call_update_shape(_, _, _, _, _)

\* Variant: the rebuild also runs inside the notification.
queue_update_inline(s, n) ==
    call_update_shape([s EXCEPT !.update_count[n] = @ + 1, !.queue = Append(@, n)],
                      n, declaration[n], children[n], 0)

\* Variant: the call is deferred without being counted.
queue_update_uncounted(s, n) ==
    [s EXCEPT !.queue = Append(@, n)]

\* Variant: a call is deferred only for the first pending change.
queue_update_single(s, n) ==
    [s EXCEPT !.update_count[n] = @ + 1,
              !.queue = IF s.update_count[n] = 0 THEN Append(@, n) ELSE @]

\* OccOperation._queue_update: count the change and defer _dequeue_update.
queue_update(s, n) ==
    [s EXCEPT !.update_count[n] = @ + 1,
              !.queue = Append(@, n)]

\* Variant: each observer is rebuilt inside the notification.
RECURSIVE notify_inline(_, _)
notify_inline(s, ns) ==
    IF ns = {} THEN s
    ELSE LET n == CHOOSE m \in ns : TRUE
         IN  notify_inline(queue_update_inline(s, n), ns \ {n})

\* The observers of a changed shape are called one after the other; each is
\* a node's _queue_update.
RECURSIVE notify(_, _)
notify(s, ns) ==
    IF ns = {} THEN s
    ELSE LET n == CHOOSE m \in ns : TRUE
         IN  notify(queue_update(s, n), ns \ {n})

\* Variant: a shape assignment is stored without calling the observers.
shape_written_silent(s, n, w) == [s EXCEPT !.shape[n] = w]

\* self.shape = w on node n: the member is stored and, unless it was None and
\* stays None, the observers of n's 'shape' are called.
shape_written(s, n, w) ==
    IF w = None /\ s.shape[n] = None THEN s
    ELSE notify([s EXCEPT !.shape[n] = w], observers[n])

\* The assignments of one update_shape run, in order.
RECURSIVE shape_writes(_, _, _, _)
shape_writes(s, n, writes, i) ==
    IF i > Len(writes) THEN s
    ELSE shape_writes(shape_written(s, n, writes[i]), n, writes, i + 1)

\* self.update_shape(change) called on node n: the run's assignments are
\* applied to n's shape; what it read and did is recorded.
call_update_shape(s, n, d, cs, failAt) ==
    LET r == update_shape(n, d, cs, s.shape[n], failAt)
        s1 == shape_writes(s, n, r.writes, 1)
    IN  [s1 EXCEPT !.rebuilds[n] = @ + 1,
                   !.last[n] = [built |-> d, calls |-> r.calls, writes |-> r.writes,
                                raised |-> r.raised, before |-> s.shape[n]]]

\* Variant: every deferred call rebuilds, settled or not.
dequeue_update_every(s, n, d, cs, failAt) ==
    LET s1 == [s EXCEPT !.update_count[n] = @ - 1]
    IN  IF ~d.live THEN s1 ELSE call_update_shape(s1, n, d, cs, failAt)

\* Variant: the declaration is not looked at.
dequeue_update_no_declaration_test(s, n, d, cs, failAt) ==
    LET s1 == [s EXCEPT !.update_count[n] = @ - 1]
    IN  IF s1.update_count[n] # 0 THEN s1
        ELSE call_update_shape(s1, n, d, cs, failAt)

\* Variant: the counter is tested before it is decremented.
dequeue_update_test_first(s, n, d, cs, failAt) ==
    IF s.update_count[n] # 0 THEN s
    ELSE LET s1 == [s EXCEPT !.update_count[n] = @ - 1]
         IN  IF ~d.live THEN s1 ELSE call_update_shape(s1, n, d, cs, failAt)

\* Variant: the counter is decremented after update_shape returns, so a
\* rebuild that raises leaves it at 1.
dequeue_update_decrement_last(s, n, d, cs, failAt) ==
    LET s1 == [s EXCEPT !.update_count[n] = @ - 1]
    IN  IF s1.update_count[n] # 0 THEN s1
        ELSE IF ~d.live THEN s1
        ELSE LET s2 == call_update_shape(s, n, d, cs, failAt)
             IN  IF s2.last[n].raised THEN s2
                 ELSE [s2 EXCEPT !.update_count[n] = @ - 1]

\* OccOperation._dequeue_update, run by the event loop for a deferred call.
dequeue_update(s, n, d, cs, failAt) ==
    LET s1 == [s EXCEPT !.update_count[n] = @ - 1]
    IN  IF s1.update_count[n] # 0 THEN s1
        ELSE IF ~d.live THEN s1
        ELSE call_update_shape(s1, n, d, cs, failAt)

TasksIn(q, n) == Cardinality({i \in DOMAIN q : q[i] = n})
TasksFor(n) == TasksIn(queue, n)

Remove(q, i) == SubSeq(q, 1, i - 1) \o SubSeq(q, i + 1, Len(q))

Idle == [notes |-> 0, fired |-> 0, rebuilds |-> 0, mixed |-> FALSE, owed |-> FALSE]

\* A notification on n: it opens a settle period when no deferred call of n
\* is outstanding, and is mixed when a deferred call of the period already ran.
Noted(b, outstanding) ==
    IF outstanding = 0
    THEN [Idle EXCEPT !.notes = 1, !.owed = TRUE]
    ELSE [b EXCEPT !.notes = @ + 1, !.owed = TRUE, !.mixed = @ \/ b.fired > 0]

\* A deferred call of n ran and invoked `built` rebuilds.
Ran(b, built) ==
    [b EXCEPT !.fired = @ + 1, !.rebuilds = @ + built,
              !.owed = IF built > 0 THEN FALSE ELSE @]

\* k notifications in a row on a node with `outstanding` deferred calls.
RECURSIVE NotedTimes(_, _, _)
NotedTimes(b, outstanding, k) ==
    IF k = 0 THEN b
    ELSE NotedTimes(Noted(b, outstanding), outstanding + 1, k - 1)

Install(s) ==
    /\ update_count' = s.update_count
    /\ queue' = s.queue
    /\ shape' = s.shape
    /\ last' = s.last
    /\ rebuilds' = s.rebuilds

InstallWiring(w) ==
    /\ observers' = w.observers
    /\ old_spline' = w.old_spline
    /\ old_profile' = w.old_profile
    /\ old_shape' = w.old_shape

\* ------------------------------------------------------------ subscriptions
Wiring ==
    [observers |-> observers, old_spline |-> old_spline,
     old_profile |-> old_profile, old_shape |-> old_shape]

\* proxy.observe('shape', self._queue_update): the observer pool of an
\* object holds a callback at most once per topic.
observe(obs, p, n) == [obs EXCEPT ![p] = @ \cup {n}]

\* proxy.unobserve('shape', self._queue_update)
unobserve(obs, p, n) == [obs EXCEPT ![p] = @ \ {n}]

\* Variant: the old spline stays observed.
set_spline_keep_old(w, s, n, p) ==
    [w |-> [w EXCEPT !.observers = observe(@, p, n), !.old_spline[n] = <<p>>],
     s |-> queue_update(s, n)]

\* OccPipe.set_spline
set_spline(w, s, n, p) ==
    LET w1 == IF w.old_spline[n] # None
              THEN [w EXCEPT !.observers = unobserve(@, w.old_spline[n][1], n)]
              ELSE w
    IN  [w |-> [w1 EXCEPT !.observers = observe(@, p, n), !.old_spline[n] = <<p>>],
         s |-> queue_update(s, n)]

\* OccPipe.set_profile
set_profile(w, s, n, p) ==
    LET w1 == IF w.old_profile[n] # None
              THEN [w EXCEPT !.observers = unobserve(@, w.old_profile[n][1], n)]
              ELSE w
    IN  [w |-> [w1 EXCEPT !.observers = observe(@, p, n), !.old_profile[n] = <<p>>],
         s |-> queue_update(s, n)]

\* Variant: the old target stays observed.
set_shape_keep_old(w, s, n, p) ==
    [w |-> [w EXCEPT !.observers = observe(@, p, n), !.old_shape[n] = <<p>>],
     s |-> s]

\* OccTransform.set_shape: it rebinds the observer and calls no _queue_update.
set_shape(w, s, n, p) ==
    LET w1 == IF w.old_shape[n] # None
              THEN [w EXCEPT !.observers = unobserve(@, w.old_shape[n][1], n)]
              ELSE w
    IN  [w |-> [w1 EXCEPT !.old_shape[n] = <<p>>, !.observers = observe(@, p, n)],
         s |-> s]

\* The handler the declaration's change of reference field f runs.
set_handler(w, s, n, f, p) ==
    IF f = "spline" THEN set_spline(w, s, n, p)
    ELSE IF f = "profile" THEN set_profile(w, s, n, p)
    ELSE set_shape(w, s, n, p)

\* The other shape a producer takes when it is edited.
Edited(p) == IF pshape[p] = <<p, "s1">> THEN <<p, "s2">> ELSE <<p, "s1">>

\* ------------------------------------------------------------------ actions
\* One node n of N is attached, with a declaration and children of its kind.
Start(N) ==
    \E n \in N : \E d \in DeclarationsOf(n) : \E cs \in ChildrenOf(n) :
        /\ declaration = [m \in Nodes |-> IF m = n THEN d ELSE NoDeclaration]
        /\ children = [m \in Nodes |-> IF m = n THEN cs ELSE << >>]
        /\ shape = [m \in Nodes |->
                      IF m = n /\ n \in BoolNodes
                      THEN Current(create_shape(Started, n, d, 0), None)
                      ELSE None]
        /\ update_count = [m \in Nodes |-> 0]
        /\ queue = << >>
        /\ last = [m \in Nodes |-> NeverBuilt]
        /\ rebuilds = [m \in Nodes |-> 0]
        /\ issued = [m \in Nodes |-> 0]
        /\ burst = [m \in Nodes |-> Idle]
        /\ pshape = [p \in Producers |-> <<p, "s1">>]
        /\ observers = [p \in Sources |-> {}]
        /\ old_spline = [m \in Nodes |-> None]
        /\ old_profile = [m \in Nodes |-> None]
        /\ old_shape = [m \in Nodes |-> None]

Init == Start(LocalNodes)

\* A pipe, or a transform declared with one list of operations.
RefInit ==
    /\ Start(RefNodes)
    /\ declaration["transform"].live
         => declaration["transform"].operations = <<"Translate", "Rotate">>

\* A transform without explicit reference, or one of the operations that
\* work on their first child or on children of given kinds.
OpInit == Start({"transform", "chamfer"} \cup OpNodes)

\* A boolean node and a consumer declared with an explicit reference to it:
\* the consumer's init_shape binds the reference with set_shape (Transform)
\* or set_spline (Pipe, which also calls _queue_update).
ChainProducer == "cut"

ChainConsumers == RefNodes

ChainField(c) == IF c = "pipe" THEN "spline" ELSE "shape"

ChainInit ==
    \E c \in ChainConsumers : \E k \in 0..Min(MaxChildren, 2) :
        LET P == ChainProducer
            dP == [NoDeclaration EXCEPT !.live = TRUE, !.shape1 = <<"A">>,
                                        !.shape2 = <<"B">>]
            dC == [NoDeclaration EXCEPT !.live = TRUE, ![ChainField(c)] = <<P>>,
                                        !.operations = <<"Translate">>]
            w0 == [observers |-> [p \in Sources |-> {}],
                   old_spline |-> [m \in Nodes |-> None],
                   old_profile |-> [m \in Nodes |-> None],
                   old_shape |-> [m \in Nodes |-> None]]
            s0 == [update_count |-> [m \in Nodes |-> 0],
                   queue |-> << >>,
                   shape |-> [m \in Nodes |->
                                IF m = P
                                THEN Current(create_shape(Started, P, dP, 0), None)
                                ELSE None],
                   last |-> [m \in Nodes |-> NeverBuilt],
                   rebuilds |-> [m \in Nodes |-> 0]]
            r == set_handler(w0, s0, c, ChainField(c), P)
        IN  /\ declaration = [m \in Nodes |->
                                 IF m = P THEN dP ELSE IF m = c THEN dC
                                 ELSE NoDeclaration]
            /\ children = [m \in Nodes |->
                              IF m = P THEN SubSeq(<<"C", "D">>, 1, k)
                              ELSE IF m = "pipe" /\ c = "pipe" THEN <<"C", "D">>
                              ELSE << >>]
            /\ shape = r.s.shape
            /\ update_count = r.s.update_count
            /\ queue = r.s.queue
            /\ last = r.s.last
            /\ rebuilds = r.s.rebuilds
            /\ issued = r.s.update_count
            /\ burst = [m \in Nodes |->
                           IF r.s.update_count[m] > 0 THEN Noted(Idle, 0) ELSE Idle]
            /\ pshape = [p \in Producers |-> <<p, "s1">>]
            /\ observers = r.w.observers
            /\ old_spline = r.w.old_spline
            /\ old_profile = r.w.old_profile
            /\ old_shape = r.w.old_shape

\* A declared field of a live node is written; the proxy's set_<field>
\* handler runs and calls _queue_update({}).
set_parameter ==
    \E n \in Nodes : \E f \in SettableFields(n) : \E v \in FieldValues(f) :
        /\ declaration[n].live
        /\ declaration[n][f] # v
        /\ issued[n] < MaxNotify
        /\ declaration' = [declaration EXCEPT ![n][f] = v]
        /\ Install(queue_update(State, n))
        /\ issued' = [issued EXCEPT ![n] = @ + 1]
        /\ burst' = [burst EXCEPT ![n] = Noted(@, TasksFor(n))]
        /\ UNCHANGED <<children, pshape, wiring>>

\* The event loop runs one deferred _dequeue_update call.
fire ==
    \E i \in DOMAIN queue : \E failAt \in 0..MaxKernelCalls :
        LET n == queue[i]
            s == dequeue_update([State EXCEPT !.queue = Remove(@, i)], n,
                                declaration[n], children[n], failAt)
        IN  /\ Install(s)
            /\ burst' = [m \in Nodes |->
                            IF m = n THEN Ran(burst[m], s.rebuilds[n] - rebuilds[n])
                            ELSE IF m \in observers[n]
                            THEN NotedTimes(burst[m], TasksFor(m),
                                            s.update_count[m] - update_count[m])
                            ELSE burst[m]]
            /\ UNCHANGED <<declaration, children, issued, pshape, wiring>>

\* The node's declaration is cleared.
detach ==
    \E n \in Nodes :
        /\ declaration[n].live
        /\ declaration' = [declaration EXCEPT ![n].live = FALSE]
        /\ UNCHANGED <<children, shape, update_count, queue, last, rebuilds,
                       issued, burst, pshape, wiring>>

\* An explicit reference of a live node is written with a producer; the
\* proxy's set_spline, set_profile or set_shape handler runs.
set_reference ==
    \E n \in Nodes : \E f \in ReferenceFields(n) : \E p \in Producers :
        LET r == set_handler(Wiring, State, n, f, p)
            notes == r.s.update_count[n] - update_count[n]
        IN  /\ declaration[n].live
            /\ declaration[n][f] # <<p>>
            /\ issued[n] + notes <= MaxNotify
            /\ declaration' = [declaration EXCEPT ![n][f] = <<p>>]
            /\ InstallWiring(r.w)
            /\ Install(r.s)
            /\ issued' = [issued EXCEPT ![n] = @ + notes]
            /\ burst' = [burst EXCEPT ![n] =
                            IF notes > 0 THEN Noted(@, TasksFor(n)) ELSE @]
            /\ UNCHANGED <<children, pshape>>

\* A producer is edited: its proxy's shape changes and its observers run.
shape_changed ==
    \E p \in Producers :
        /\ \A n \in observers[p] : issued[n] < MaxNotify
        /\ pshape' = [pshape EXCEPT ![p] = Edited(p)]
        /\ Install(notify(State, observers[p]))
        /\ issued' = [n \in Nodes |->
                         IF n \in observers[p] THEN issued[n] + 1 ELSE issued[n]]
        /\ burst' = [n \in Nodes |->
                        IF n \in observers[p] THEN Noted(burst[n], TasksFor(n))
                        ELSE burst[n]]
        /\ UNCHANGED <<declaration, children, wiring>>

Next == set_parameter \/ fire \/ detach

RefNext == Next \/ set_reference \/ shape_changed

\* The operations with explicit references.
RefSpec == RefInit /\ [][RefNext]_vars

\* Transform and thick solid driven by parameter edits alone.
OpSpec == OpInit /\ [][Next]_vars

\* A parameter edit within the chain's budget of edits per node.
chain_edit ==
    /\ set_parameter
    /\ \A n \in Nodes : issued'[n] <= MaxChainEdits

ChainNext == chain_edit \/ fire \/ detach

\* A boolean node observed by the Pipe or Transform that references it.
ChainSpec == ChainInit /\ [][ChainNext]_vars

Spec == Init /\ [][Next]_vars

\* A deferred call is taken off the queue: the steps of `fire`, and only those.
taken == \E i \in DOMAIN queue : queue' = Remove(queue, i)

\* The event loop keeps running deferred calls while any is outstanding.
LiveSpec == Spec /\ WF_queue(taken)

LiveChainSpec == ChainSpec /\ WF_queue(taken)

\* ================================================================== claims

\* C1: when N >= 1 notifications are issued on a live node before any of its
\* deferred calls runs, then once all its deferred calls have run exactly one
\* rebuild has been invoked, and it read the declaration as written last.
C1_DebounceOneRebuild ==
    \A n \in Nodes :
        (/\ declaration[n].live
         /\ burst[n].notes >= 1
         /\ ~burst[n].mixed
         /\ TasksFor(n) = 0)
        => /\ burst[n].rebuilds = 1
           /\ last[n].built = declaration[n]

C1_Witness ==
    \E n \in Nodes :
        /\ declaration[n].live
        /\ burst[n].notes = MaxNotify
        /\ ~burst[n].mixed
        /\ TasksFor(n) = 0
        /\ burst[n].rebuilds = 1
        /\ last[n].built = declaration[n]

C3_CounterSettles ==
    /\ [](\A n \in Nodes : update_count[n] >= 0)
    /\ [][\A n \in Nodes :
             rebuilds'[n] # rebuilds[n]
             => /\ update_count[n] = 1
                /\ update_count'[n] = 0
                /\ Len(queue') = Len(queue) - 1]_vars

C3_Witness ==
    \E n \in Nodes :
        /\ rebuilds[n] >= 2
        /\ last[n].raised
        /\ update_count[n] = 0

\* C4 (as stated): at most one deferred call per node is outstanding.
C4_AtMostOneTask ==
    \A n \in Nodes : TasksFor(n) <= 1

\* C4 (amended): every notification increments the pending counter by one and
\* defers one more call, whether or not a call of the node is outstanding.
C4_OneTaskPerNotify ==
    [][\A n \in Nodes :
          issued'[n] # issued[n]
          => /\ update_count'[n] = update_count[n] + 1
             /\ TasksIn(queue', n) = TasksIn(queue, n) + 1
             /\ rebuilds' = rebuilds]_vars

C4_Witness ==
    \E n \in Nodes : TasksFor(n) >= 2 /\ update_count[n] = TasksFor(n)

\* C5: no deferred call invokes update_shape on a node whose declaration is
\* cleared: a step taken from such a state leaves its rebuilds and its shape.
C5_NoRebuildAfterDetach ==
    [][\A n \in Nodes :
          ~declaration[n].live
          => rebuilds'[n] = rebuilds[n] /\ shape'[n] = shape[n]]_vars

C5_Witness ==
    \E n \in Nodes :
        /\ ~declaration[n].live
        /\ burst[n].notes >= 2
        /\ burst[n].fired = burst[n].notes
        /\ TasksFor(n) = 0
        /\ burst[n].rebuilds = 0

\* C6: under a fair event loop, every notification on a node that stays live
\* is eventually followed by a rebuild: from some point on no live node is
\* owed one.
C6_EventuallyRebuilt ==
    <>[](\A n \in Nodes : declaration[n].live => ~burst[n].owed)

C6_Witness ==
    \E n \in Nodes :
        /\ declaration[n].live
        /\ burst[n].mixed
        /\ TasksFor(n) = 0
        /\ burst[n].rebuilds = 1
        /\ ~burst[n].owed

\* op(...op(op(a, b), c1)..., ck) as a shape term.
LeftFold(op, a, b, cs) ==
    LET F[k \in 0..Len(cs)] ==
            IF k = 0 THEN BRepAlgoAPI(op, a, b)
            ELSE BRepAlgoAPI(op, F[k - 1], LeafShape(cs[k]))
    IN  F[Len(cs)]

Reorderings(cs) ==
    {p \in [1..Len(cs) -> {cs[i] : i \in 1..Len(cs)}] : Injective(p) /\ p # cs}

\* C7: a boolean node with both operands rebuilds to the left fold of its
\* operation over shape1, shape2 and then the children in declared order; Cut
\* of A, B with children [C, D] is Cut(Cut(Cut(A,B),C),D); and the same
\* children in another order rebuild to another shape.
C7_BooleanLeftFold ==
    \A n \in BoolNodes :
        LET d == declaration[n] IN
        (rebuilds[n] > 0 /\ ~last[n].raised /\ d.shape1 # None /\ d.shape2 # None)
        => /\ shape[n] = LeftFold(OpName(n), d.shape1, d.shape2, children[n])
           /\ (n = "cut" /\ children[n] = <<"C", "D">>
               => shape[n] = <<"A", "B", "Cut", "C", "Cut", "D", "Cut">>)
           /\ \A cs \in Reorderings(children[n]) :
                  Current(update_shape(n, d, cs, shape[n], 0), shape[n]) # shape[n]

C7_Witness ==
    /\ rebuilds["cut"] > 0
    /\ ~last["cut"].raised
    /\ declaration["cut"].shape1 = <<"A">>
    /\ declaration["cut"].shape2 = <<"B">>
    /\ children["cut"] = <<"C", "D">>
    /\ shape["cut"] = <<"A", "B", "Cut", "C", "Cut", "D", "Cut">>

\* op(...op(c1, c2)..., ck) as a shape term; c1's own shape when k = 1.
ChildFold(op, cs) ==
    LET F[k \in 1..Len(cs)] ==
            IF k = 1 THEN LeafShape(cs[1])
            ELSE BRepAlgoAPI(op, F[k - 1], LeafShape(cs[k]))
    IN  F[Len(cs)]

\* C8 (as stated): with shape1 or shape2 absent a boolean rebuild leaves the
\* shape none and makes no kernel call, whatever the number of children.
C8_AbsentOperandInert ==
    \A n \in BoolNodes :
        LET d == declaration[n] IN
        (rebuilds[n] > 0 /\ (d.shape1 = None \/ d.shape2 = None))
        => shape[n] = None /\ last[n].calls = << >>

\* C8 (amended): with shape1 or shape2 absent a boolean rebuild first sets
\* the shape to none without a kernel call and then folds the children alone:
\* without children the shape stays none and no kernel call is made; with
\* children [c1..ck] a rebuild that completes makes k-1 kernel calls and
\* leaves op(...op(c1,c2)...,ck), which for k = 1 is c1's own shape.
C8_AbsentOperandFoldsChildren ==
    \A n \in BoolNodes :
        LET d == declaration[n]
            cs == children[n]
        IN  (rebuilds[n] > 0 /\ ~last[n].raised
               /\ (d.shape1 = None \/ d.shape2 = None))
            => /\ last[n].writes[1] = None
               /\ IF cs = << >>
                  THEN shape[n] = None /\ last[n].calls = << >>
                  ELSE /\ shape[n] = ChildFold(OpName(n), cs)
                       /\ Len(last[n].calls) = Len(cs) - 1
                       /\ \A i \in 1..Len(last[n].calls) :
                              last[n].calls[i].fn = OpName(n)

C8_Witness ==
    \E n \in BoolNodes :
        /\ rebuilds[n] > 0
        /\ ~last[n].raised
        /\ declaration[n].shape1 = None
        /\ declaration[n].shape2 # None
        /\ Len(children[n]) = 2
        /\ shape[n] = ChildFold(OpName(n), children[n])
        /\ Len(last[n].calls) = 1

\* C9: rebuilding a Fillet without children raises before any kernel builder
\* is created or called, and the node's shape is not written.
C9_FilletNoChild ==
    (children["fillet"] = << >> /\ rebuilds["fillet"] > 0)
    => /\ last["fillet"].raised
       /\ last["fillet"].calls = << >>
       /\ last["fillet"].writes = << >>
       /\ shape["fillet"] = last["fillet"].before

C9_Witness ==
    /\ children["fillet"] = << >>
    /\ rebuilds["fillet"] > 0
    /\ last["fillet"].raised
    /\ last["fillet"].calls = << >>

\* The Add call a chamfer rebuild makes for one (edge, face) pair.
ChamferAdd(d, edge, face) ==
    Call("Chamfer.Add",
         (IF d.distance2 # None THEN <<<<d.distance>>, d.distance2>>
          ELSE <<<<d.distance>>>>) \o <<<<edge>>, <<face>>>>)

\* C10: a Chamfer rebuild that completes has created the builder on its first
\* child and then added exactly the pairs (edge_i, face_i), i up to the shorter
\* of the two lists, each list being the declared one or, when that is empty,
\* the first child's topology; with 3 declared edges and 2 declared faces it
\* makes 2 Add calls and never submits the 3rd edge.
C10_ChamferPairs ==
    LET n == "chamfer"
        d == last[n].built
        child == children[n][1]
        E == IF d.edges = << >> THEN TopologyEdges(child) ELSE d.edges
        F == IF d.faces = << >> THEN TopologyFaces(child) ELSE d.faces
        adds == SubSeq(last[n].calls, 2, Len(last[n].calls))
    IN  (rebuilds[n] > 0 /\ ~last[n].raised)
        => /\ last[n].calls[1] = Call("BRepFilletAPI_MakeChamfer", <<LeafShape(child)>>)
           /\ adds = [i \in 1..Min(Len(E), Len(F)) |-> ChamferAdd(d, E[i], F[i])]
           /\ (Len(d.edges) = 3 /\ Len(d.faces) = 2
               => /\ Len(adds) = 2
                  /\ \A i \in 1..Len(adds) :
                         \A k \in 1..Len(adds[i].args) : adds[i].args[k] # <<d.edges[3]>>)

C10_Witness ==
    /\ rebuilds["chamfer"] > 0
    /\ ~last["chamfer"].raised
    /\ Len(declaration["chamfer"].edges) = 3
    /\ Len(declaration["chamfer"].faces) = 2
    /\ Len(last["chamfer"].calls) = 3

\* C11: while the pipe's spline is bound to Y, a different node X that is not
\* its profile no longer notifies it: a shape change on X leaves the pipe's
\* pending counter and deferred calls as they are, and a shape change on Y
\* adds one to the counter and defers one call.
C11_ReboundSplineNotifies ==
    [][\A x \in Producers : \A y \in Producers \ {x} :
          (/\ declaration["pipe"].spline = <<y>>
           /\ declaration["pipe"].profile # <<x>>)
          => /\ pshape'[x] # pshape[x]
                => /\ update_count'["pipe"] = update_count["pipe"]
                   /\ TasksIn(queue', "pipe") = TasksFor("pipe")
             /\ pshape'[y] # pshape[y]
                => /\ update_count'["pipe"] = update_count["pipe"] + 1
                   /\ TasksIn(queue', "pipe") = TasksFor("pipe") + 1]_vars

\* The spline was X when the pipe was last built and is Y now; Y has changed
\* since and the pipe has been notified of the rebind and of the change.
C11_Witness ==
    /\ last["pipe"].built.spline = <<"X">>
    /\ declaration["pipe"].spline = <<"Y">>
    /\ declaration["pipe"].profile = None
    /\ "pipe" \notin observers["X"]
    /\ pshape["Y"] = <<"Y", "s2">>
    /\ update_count["pipe"] = 2

\* C12: after any sequence of set_spline and set_profile calls, the nodes
\* whose shape changes notify the pipe are exactly the nodes its spline or
\* profile references.
C12_SubscribedIsReferenced ==
    {p \in Producers : "pipe" \in observers[p]}
        = {p \in Producers : \/ declaration["pipe"].spline = <<p>>
                             \/ declaration["pipe"].profile = <<p>>}

\* C13: the kernel call of a pipe rebuild takes an explicitly referenced
\* input from the referenced node and the other inputs from the children in
\* order without reuse: the spline is child 0 when not explicit, and the
\* profile, when not explicit, is child 1 if the spline took child 0 and
\* child 0 otherwise; the two never resolve to the same child.
C13_PipeInputsInOrder ==
    (rebuilds["pipe"] > 0 /\ last["pipe"].calls # << >>)
    => LET d == last["pipe"].built
           cs == children["pipe"]
           args == last["pipe"].calls[1].args
           k == IF d.spline = None THEN 2 ELSE 1
       IN  /\ d.spline # None => args[1][1] = d.spline[1]
           /\ d.spline = None => args[1] = LeafShape(cs[1])
           /\ d.profile # None => args[2][1] = d.profile[1]
           /\ d.profile = None => /\ k <= Len(cs)
                                  /\ args[2] = LeafShape(cs[k])
           /\ (d.spline = None /\ d.profile = None) => args[1] # args[2]

\* C14: a thick solid rebuild with no declared closing faces and a target
\* whose topology has no faces returns without raising, makes no kernel call
\* and leaves the node's shape as it was.
C14_EmptyFacesNoOp ==
    (/\ rebuilds["thicksolid"] > 0
     /\ last["thicksolid"].built.closing_faces = << >>
     /\ children["thicksolid"] # << >>
     /\ TopologyFaces(children["thicksolid"][1]) = << >>)
    => /\ ~last["thicksolid"].raised
       /\ last["thicksolid"].calls = << >>
       /\ shape["thicksolid"] = last["thicksolid"].before

\* T(op1) * T(op2) * ... * T(opn), written as its factors from left to right.
Composite(ops) == [i \in 1..Len(ops) |-> Trsf(ops[i])[1]]

Reverse(s) == [i \in 1..Len(s) |-> s[Len(s) + 1 - i]]

\* C15: the matrix a transform rebuild hands to the kernel is
\* T(op1) * T(op2) * ... * T(opn) for the declared operations [op1, ..., opn]
\* in declared order, and the same operations declared in the opposite order
\* compose to the product taken in the opposite order.
C15_ComposeInDeclaredOrder ==
    (rebuilds["transform"] > 0 /\ last["transform"].calls # << >>)
    => LET d == last["transform"].built
           t == last["transform"].calls[1].args[2]
       IN  /\ t = Composite(d.operations)
           /\ get_transform([d EXCEPT !.operations = Reverse(@)]) = Reverse(t)

\* A transform of two different operations has been rebuilt on its child.
C15_Witness ==
    /\ rebuilds["transform"] > 0
    /\ last["transform"].calls # << >>
    /\ ~last["transform"].raised
    /\ last["transform"].built.operations = <<"Rotate", "Translate">>
    /\ last["transform"].calls[1].args[2] = <<"SetRotation", "SetTranslation">>

\* C16: a transform rebuild passes copy = true to the kernel exactly when its
\* target is the explicitly referenced node, and copy = false exactly when
\* the target is the first child; an explicit reference is the target also
\* when the node has children.
C16_CopyIffExplicit ==
    (rebuilds["transform"] > 0 /\ last["transform"].calls # << >>)
    => LET d == last["transform"].built
           args == last["transform"].calls[1].args
       IN  /\ args[3] = <<"True">> <=> d.shape # None
           /\ args[3] = <<"False">> <=> d.shape = None
           /\ d.shape # None => args[1][1] = d.shape[1]
           /\ d.shape = None => /\ children["transform"] # << >>
                                /\ args[1] = LeafShape(children["transform"][1])

\* A transform with a child and an explicit reference to X has been rebuilt
\* on X with copy = true.
C16_Witness ==
    /\ rebuilds["transform"] > 0
    /\ children["transform"] = <<"C">>
    /\ last["transform"].built.shape = <<"X">>
    /\ ~last["transform"].raised
    /\ last["transform"].calls # << >>
    /\ last["transform"].calls[1].args[1][1] = "X"
    /\ last["transform"].calls[1].args[3] = <<"True">>

\* C17: after any sequence of set_shape rebinds the transform is subscribed
\* to the shape changes of exactly one node, the one its shape reference
\* names now; the previous target and the new one are never both subscribed.
C17_OneSubscription ==
    declaration["transform"].shape # None
    => {p \in Producers : "transform" \in observers[p]}
           = {declaration["transform"].shape[1]}

\* The transform was last built on X and has been rebound to Y since.
C17_Witness ==
    /\ last["transform"].built.shape = <<"X">>
    /\ declaration["transform"].shape = <<"Y">>
    /\ old_shape["transform"] = <<"Y">>
    /\ "transform" \in observers["Y"]
    /\ "transform" \notin observers["X"]

\* C18: every change of an explicit reference (the pipe's spline or profile,
\* the transform's shape) goes through the scheduler: the step that rebinds
\* it adds one to the node's pending counter and defers one rebuild.
C18_RebindNotifies ==
    [][\A n \in RefNodes :
          (\E f \in ReferenceFields(n) : declaration'[n][f] # declaration[n][f])
          => /\ update_count'[n] = update_count[n] + 1
             /\ TasksIn(queue', n) = TasksFor(n) + 1]_vars

\* C19: once a pipe or transform is detached, a shape change on a node it
\* referenced no longer reaches it: no step adds to the detached node's
\* pending counter or to its deferred calls.
C19_DetachedNotNotified ==
    [][\A n \in RefNodes :
          ~declaration[n].live
          => /\ update_count'[n] <= update_count[n]
             /\ TasksIn(queue', n) <= TasksFor(n)]_vars

\* C20: for every operation kind, a rebuild that fails (a missing child, or a
\* kernel call that raises at any step) leaves the node's shape equal to its
\* value before the rebuild started; a failed boolean fold leaves neither a
\* partial fold nor none.
C20_FailedRebuildKeepsShape ==
    \A n \in Nodes :
        (rebuilds[n] > 0 /\ last[n].raised) => shape[n] = last[n].before

\* C21: no rebuild starts while another is in progress.  The step in which a
\* node's update_shape runs rebuilds that node once and no other node; every
\* shape write it makes only adds one to the pending counter of each
\* subscribed consumer and defers one call for it.
C21_NoNestedRebuild ==
    [][\A n \in Nodes :
          rebuilds'[n] # rebuilds[n]
          => /\ rebuilds'[n] = rebuilds[n] + 1
             /\ \A m \in Nodes \ {n} : rebuilds'[m] = rebuilds[m]
             /\ \A m \in observers[n] :
                    /\ update_count'[m] = update_count[m] + Len(last'[n].writes)
                    /\ TasksIn(queue', m) = TasksFor(m) + Len(last'[n].writes)]_vars

\* The boolean node has been rebuilt with three shape writes while a consumer
\* observes it: the consumer has three deferred calls and has not been rebuilt.
C21_Witness ==
    \E m \in observers[ChainProducer] :
        /\ rebuilds[ChainProducer] = 1
        /\ Len(last[ChainProducer].writes) = 3
        /\ rebuilds[m] = 0
        /\ update_count[m] >= 3
        /\ TasksFor(m) >= 3

\* C22: when a producer referenced by a live Pipe or Transform stores a new
\* shape, the consumer is scheduled for a rebuild (its pending counter grows
\* and a call is deferred, which the event loop then runs), and a consumer
\* rebuild reads the producer's shape as it is when the deferred call fires.
C22_ProducerWriteRebuildsConsumer ==
    [][\A n \in RefNodes : \A p \in Producers :
          /\ (/\ declaration[n].live
              /\ \E f \in ReferenceFields(n) : declaration[n][f] = <<p>>
              /\ pshape'[p] # pshape[p])
             => /\ update_count'[n] > update_count[n]
                /\ TasksIn(queue', n) > TasksFor(n)
          /\ (/\ rebuilds'[n] = rebuilds[n] + 1
              /\ last'[n].calls # << >>
              /\ \E f \in ReferenceFields(n) :
                     f # "profile" /\ declaration[n][f] = <<p>>)
             => last'[n].calls[1].args[1] = pshape[p]]_vars

\* C23: no node's shape is the Shape value another node holds; in particular
\* a boolean node's shape is never the shape object of one of its children.
C23_NoSharedShape ==
    \A n \in BoolNodes : \A i \in DOMAIN children[n] :
        shape[n] # LeafShape(children[n][i])

\* The Add calls of a fillet rebuild: one per target edge, with the radius.
FilletAdds(d, child) ==
    LET edges == IF d.edges # << >> THEN d.edges ELSE TopologyEdges(child)
    IN  [i \in 1..Len(edges) |-> Call("Fillet.Add", <<<<d.radius>>, <<edges[i]>>>>)]

\* C24: a fillet rebuild with a child that completes adds to the builder
\* exactly the declared edges when the declared list is non-empty, otherwise
\* exactly every edge of the first child's topology, each once and with the
\* declared radius, and then stores the builder as the node's shape.
C24_FilletEdgeSet ==
    (/\ rebuilds["fillet"] > 0
     /\ children["fillet"] # << >>
     /\ ~last["fillet"].raised)
    => LET d == last["fillet"].built
           child == children["fillet"][1]
           calls == last["fillet"].calls
       IN  /\ calls = <<Call("BRepFilletAPI_MakeFillet", <<LeafShape(child)>>)>>
                         \o FilletAdds(d, child)
           /\ last["fillet"].writes = <<BuilderTerm(calls, 1)>>
           /\ shape["fillet"] = BuilderTerm(calls, 1)

\* A fillet of two declared edges on a child with three edges was rebuilt.
C24_Witness ==
    /\ rebuilds["fillet"] > 0
    /\ children["fillet"] = <<"C">>
    /\ ~last["fillet"].raised
    /\ last["fillet"].built.edges = <<"e1", "e2">>
    /\ Len(last["fillet"].calls) = 3
    /\ shape["fillet"] # None

\* The children a loft takes: vertex-kind and wire-kind ones.
IsSection(c) == Kind(c) \in {"vertex", "wire"}

SectionAdd(c) ==
    Call(IF Kind(c) = "vertex" THEN "AddVertex" ELSE "AddWire", <<LeafShape(c)>>)

\* C25: a ThruSections rebuild that completes issues, after creating the
\* builder, one add call per vertex-kind or wire-kind child in child order
\* (AddVertex for a vertex, AddWire for a wire) and none for a child of any
\* other kind: the add calls are the child sequence filtered to the two kinds.
C25_ThruSectionsAdds ==
    (rebuilds["thrusections"] > 0 /\ ~last["thrusections"].raised)
    => LET sections == SelectSeq(children["thrusections"], IsSection)
           calls == last["thrusections"].calls
       IN  /\ Len(calls) = 1 + Len(sections)
           /\ calls[1].fn = "BRepOffsetAPI_ThruSections"
           /\ \A i \in DOMAIN sections : calls[i + 1] = SectionAdd(sections[i])

\* A loft over a solid child followed by a wire child has been rebuilt: the
\* wire alone was added.
C25_Witness ==
    /\ rebuilds["thrusections"] > 0
    /\ ~last["thrusections"].raised
    /\ children["thrusections"] = <<"C", "W">>
    /\ Len(last["thrusections"].calls) = 2
    /\ last["thrusections"].calls[2].fn = "AddWire"

\* C26: in every reachable state the number of deferred _dequeue_update calls
\* scheduled for a node and not yet run equals the node's _update_count, also
\* after the node was detached and after a rebuild of it raised.
C26_TasksEqualCounter ==
    \A n \in Nodes : TasksFor(n) = update_count[n]

\* A node whose last rebuild raised was notified twice more and then detached
\* with both deferred calls outstanding.
C26_Witness ==
    \E n \in Nodes :
        /\ ~declaration[n].live
        /\ rebuilds[n] >= 1
        /\ last[n].raised
        /\ TasksFor(n) = 2
        /\ update_count[n] = 2

\* C27: a rebuild that raises leaves the node with pending counter 0 and no
\* deferred call outstanding, and after a raised rebuild the deferred call
\* that settles a later notification on the still live node invokes
\* update_shape once more, while the calls before it invoke none.
C27_RaiseDoesNotWedge ==
    [][\A n \in Nodes :
          /\ (rebuilds'[n] = rebuilds[n] + 1 /\ last'[n].raised)
             => (update_count'[n] = 0 /\ TasksIn(queue', n) = 0)
          /\ (/\ rebuilds[n] >= 1
              /\ last[n].raised
              /\ declaration[n].live
              /\ update_count'[n] = update_count[n] - 1)
             => rebuilds'[n] = rebuilds[n] + (IF update_count[n] = 1 THEN 1 ELSE 0)]_vars

\* After a raised rebuild the node was notified again, and the settling
\* deferred call made the one further attempt, which succeeded.
C27_Witness ==
    \E n \in Nodes :
        /\ rebuilds[n] = 2
        /\ last[n].before = None
        /\ ~last[n].raised
        /\ burst[n].notes >= 2
        /\ burst[n].rebuilds = 1
        /\ update_count[n] = 0
        /\ declaration[n].live

\* The consumer's rebuild named in last[c] read the given shape as its
\* explicit input (the pipe's spline, the transform's target).
BuiltOn(builtLast, sh) ==
    builtLast.calls # << >> => builtLast.calls[1].args[1] = sh

\* C28 (as stated): every rebuild of a boolean node with both operands and k
\* children writes its shape k+1 times and notifies a subscribed Pipe or
\* Transform k+1 times; the consumer is rebuilt exactly once for them, on the
\* boolean's final shape.
C28_BooleanBurstAsStated ==
    [][LET P == ChainProducer
           k == Len(children[P])
       IN  /\ (/\ rebuilds'[P] = rebuilds[P] + 1
               /\ last'[P].built.shape1 # None
               /\ last'[P].built.shape2 # None)
              => /\ Len(last'[P].writes) = k + 1
                 /\ \A c \in observers[P] :
                        /\ update_count'[c] = update_count[c] + k + 1
                        /\ rebuilds'[c] = rebuilds[c]
           /\ \A c \in observers[P] :
                  (update_count[c] = 1 /\ update_count'[c] = 0)
                  => /\ rebuilds'[c] = rebuilds[c] + 1
                     /\ burst'[c].rebuilds = 1
                     /\ BuiltOn(last'[c], shape[P])]_vars

\* C28 (amended): a boolean rebuild with both operands and k children writes
\* the node's shape once per completed kernel operation: k+1 times when no
\* operation raises, at most k times when one does. Each write adds one to
\* the pending counter and one deferred call of a subscribed Pipe or
\* Transform without rebuilding it; of the consumer's deferred calls only the
\* one that takes its counter to 0 rebuilds it, once per settle period while
\* it has its declaration, and that rebuild reads the boolean's shape as the
\* last write left it.
C28_BooleanBurst ==
    [][LET P == ChainProducer
           k == Len(children[P])
           w == Len(last'[P].writes)
       IN  /\ (/\ rebuilds'[P] = rebuilds[P] + 1
               /\ last'[P].built.shape1 # None
               /\ last'[P].built.shape2 # None)
              => /\ ~last'[P].raised => w = k + 1
                 /\ last'[P].raised => w <= k
                 /\ w > 0 => shape'[P] = last'[P].writes[w]
                 /\ \A c \in observers[P] :
                        /\ update_count'[c] = update_count[c] + w
                        /\ TasksIn(queue', c) = TasksFor(c) + w
                        /\ rebuilds'[c] = rebuilds[c]
           /\ \A c \in observers[P] :
                  /\ (update_count[c] > 1 /\ update_count'[c] = update_count[c] - 1)
                     => rebuilds'[c] = rebuilds[c]
                  /\ (/\ update_count[c] = 1
                      /\ update_count'[c] = 0
                      /\ declaration[c].live)
                     => /\ rebuilds'[c] = rebuilds[c] + 1
                        /\ burst'[c].rebuilds = 1
                        /\ BuiltOn(last'[c], shape[P])
                        /\ (rebuilds[P] >= 1 /\ last[P].writes # << >>)
                           => shape[P] = last[P].writes[Len(last[P].writes)]]_vars

\* The boolean with two children was rebuilt with three writes, and the
\* consumer, notified three times by it, has since been rebuilt once, on the
\* shape of the third write.
C28_Witness ==
    \E c \in observers[ChainProducer] :
        /\ rebuilds[ChainProducer] = 1
        /\ ~last[ChainProducer].raised
        /\ Len(last[ChainProducer].writes) = 3
        /\ burst[c].notes >= 3
        /\ burst[c].rebuilds = 1
        /\ rebuilds[c] = 1
        /\ update_count[c] = 0
        /\ last[c].calls # << >>
        /\ last[c].calls[1].args[1] = last[ChainProducer].writes[3]

\* The operations that work on their first child.
FirstChildNodes == {"chamfer", "offset", "thicksolid", "transform"}

\* C29: a rebuild of a Chamfer, Offset or ThickSolid node without children,
\* or of a Transform node without children and without explicit shape
\* reference, raises before any kernel builder is called and writes nothing:
\* the node's shape is what it was before the rebuild.
C29_NoTargetRaises ==
    \A n \in FirstChildNodes :
        (/\ rebuilds[n] > 0
         /\ children[n] = << >>
         /\ last[n].built.shape = None)
        => /\ last[n].raised
           /\ last[n].calls = << >>
           /\ last[n].writes = << >>
           /\ shape[n] = last[n].before

\* A thick solid with declared closing faces and no child has been rebuilt:
\* the face list was filled, and the rebuild raised at the missing target.
C29_Witness ==
    /\ rebuilds["thicksolid"] > 0
    /\ children["thicksolid"] = << >>
    /\ last["thicksolid"].built.closing_faces # << >>
    /\ last["thicksolid"].raised
    /\ last["thicksolid"].calls = << >>
    /\ shape["thicksolid"] = last["thicksolid"].before

\* Every pending counter is 0 and no deferred call is outstanding.
Quiescent ==
    /\ queue = << >>
    /\ \A n \in Nodes : update_count[n] = 0

\* C30: with a consumer referencing a boolean producer (an acyclic reference
\* graph), finitely many parameter writes and a fair event loop, the system
\* reaches a quiescent state and stays in it: from some point on every
\* pending counter is 0, no deferred call is outstanding and no node is
\* rebuilt any more.
C30_Quiescence ==
    /\ <>[]Quiescent
    /\ <>[][\A n \in Nodes : rebuilds'[n] = rebuilds[n]]_vars

\* Producer and consumer have both been rebuilt, the consumer last on the
\* producer's current shape, and nothing is pending.
C30_Witness ==
    \E c \in observers[ChainProducer] :
        /\ Quiescent
        /\ rebuilds[ChainProducer] >= 1
        /\ Len(last[ChainProducer].writes) >= 2
        /\ rebuilds[c] >= 1
        /\ last[c].calls # << >>
        /\ last[c].calls[1].args[1] = shape[ChainProducer]

====
